---- MODULE Spec2Model ----
(***************************************************************************)
(* The deferred command buffer of bevy_ecs (crates/bevy_ecs/src/commands.rs)*)
(* as a state machine: a lock-protected Vec<Command> with a "current       *)
(* entity" cursor, shared by the clones of one Commands handle, and the    *)
(* apply step that drains it into the World and the Resources.             *)
(***************************************************************************)
EXTENDS Integers, Sequences, FiniteSets, TLC

(***************************************************************************)
(* Bounds of the model.                                                    *)
(***************************************************************************)
\* enqueue calls made on the handle and its clones, over the whole run
MaxCmds == 3
\* longest iterator handed to spawn_batch
MaxBatch == 2
\* handles on the one buffer: the root and the clones handed to the systems
MaxClones == 2

(***************************************************************************)
(* Input domains.                                                          *)
(***************************************************************************)
\* identifiers the callers reserved with Entity::new() before the run
ReservedEntities == {1, 2}
\* bundles: component type |-> value
B12 == [u32 |-> 1, u64 |-> 2]
B3 == [u32 |-> 3]
Bundles == {B12, B3}
\* the bundles handed to spawn / spawn_as_entity and to with_bundle; insert
\* takes any of Bundles
SpawnBundles == {B12}
WithBundles == {B3}
\* single components handed to with / insert_one
Components == {[u32 |-> 7]}
\* resources: the key is the type
Resource314 == [type |-> "f32", val |-> 314]
Resource271 == [type |-> "f32", val |-> 271]
ResourceInputs == {Resource314, Resource271}
SystemIds == {"sysA", "sysB"}
\* iterators handed to spawn_batch: the empty one and one of MaxBatch bundles
BatchOf(n) == [i \in 1..n |-> IF i % 2 = 1 THEN B12 ELSE B3]
BatchInputs == {BatchOf(0), BatchOf(MaxBatch)}

VARIABLES
    commands,        \* CommandsInternal.commands: the Vec<Command>
    current_entity,  \* CommandsInternal.current_entity: {} is None, {e} is Some(e)
    poisoned,        \* the Mutex's poison flag
    lock,            \* the handle whose apply holds the MutexGuard: {} or {c}
    draining,        \* the range the Drain iterator of a running apply was given
    drainPos,        \* the Drain iterator's position: the next element it yields
    handles,         \* the Commands values not yet consumed: the root handle and its clones
    world,           \* World: entity |-> row (component type |-> value)
    resources,       \* Resources: [global, local]
    nextEntity,      \* the next identifier Entity::new() hands out
    nextId,          \* enqueue ticket: the order in which enqueue calls took the lock
    callSeq,         \* per handle: enqueue calls completed so far
    applied,         \* ids of the commands dispatched so far, in dispatch order
    dropped,         \* ids of the commands an aborted drain consumed without effect
    enqueued,        \* ids of the commands pushed so far
    lastCall,        \* the call that returned or panicked last
    entity_to_stretch,  \* FlexSurface.entity_to_stretch: Entity |-> stretch Node
    stretch_to_entity,  \* FlexSurface.stretch_to_entity: stretch Node |-> Entity
    window_nodes,       \* FlexSurface.window_nodes: WindowId |-> stretch Node
    stretch,            \* FlexSurface.stretch: Node |-> [style, children]
    lastFlexCall        \* the FlexSurface method that returned or panicked last

vars == <<commands, current_entity, poisoned, lock, draining, drainPos, handles, world,
          resources, nextEntity, nextId, callSeq, applied, dropped, enqueued, lastCall,
          entity_to_stretch, stretch_to_entity, window_nodes, stretch, lastFlexCall>>

\* the layout surface, which no method of the command buffer touches
flexVars == <<entity_to_stretch, stretch_to_entity, window_nodes, stretch, lastFlexCall>>

Clones == 1..MaxClones

\* who a call is attributed to: {c} for the handle c, or nobody
Anonymous == {}
Callers == {Anonymous} \cup {{c} : c \in Clones}

EmptyFcn == [x \in {} |-> 0]

Range(s) == {s[i] : i \in DOMAIN s}

Ids(s) == {s[i].id : i \in DOMAIN s}

(***************************************************************************)
(* The World and Resources collaborators, as section 6 of the design       *)
(* describes them.                                                         *)
(***************************************************************************)
\* World::contains
Contains(w, e) == e \in DOMAIN w

\* World::spawn_as_entity: a new row under the given identifier
World_spawn_as_entity(w, e, bundle) ==
    [x \in (DOMAIN w) \cup {e} |-> IF x = e THEN bundle ELSE w[x]]

\* World::insert: add or overwrite the bundle's components on the row
World_insert(w, e, bundle) ==
    [x \in DOMAIN w |-> IF x = e THEN bundle @@ w[x] ELSE w[x]]

\* World::despawn: remove the row
World_despawn(w, e) == [x \in (DOMAIN w) \ {e} |-> w[x]]

\* World::spawn_batch: one fresh entity per bundle, in the iterator's order
RECURSIVE World_spawn_batch(_, _, _)
World_spawn_batch(w, bundles, first) ==
    IF bundles = <<>> THEN w
    ELSE World_spawn_batch(World_spawn_as_entity(w, first, Head(bundles)),
                           Tail(bundles), first + 1)

\* Resources::insert
Resources_insert(r, res) ==
    [r EXCEPT !.global = (res.type :> res.val) @@ r.global]

\* Resources::insert_local
Resources_insert_local(r, system_id, res) ==
    [r EXCEPT !.local = (<<system_id, res.type>> :> res.val) @@ r.local]

(***************************************************************************)
(* Commands and their writers.                                             *)
(***************************************************************************)
NoResource == [type |-> "", val |-> 0]

\* a boxed WorldWriter / ResourcesWriter with its captured payload; id, by,
\* seq and via record the call that built it
MkCommand(who, via, kind, entity, bundles, res, system_id) ==
    [id |-> nextId, by |-> who, seq |-> callSeq[who] + 1, via |-> via, kind |-> kind,
     entity |-> entity, bundles |-> bundles, res |-> res, system_id |-> system_id]

WorldKinds == {"SpawnAsEntity", "SpawnBatch", "Despawn", "Insert", "InsertOne"}
ResourceKinds == {"InsertResource", "InsertLocalResource"}

\* Command::WriteWorld or Command::WriteResources
IsWriteWorld(cmd) == cmd.kind \in WorldKinds

\* variant: Despawn::write ignores the result of world.despawn
WriteFails_DespawnIgnored(cmd, w) ==
    /\ cmd.kind \in {"Insert", "InsertOne"}
    /\ ~Contains(w, cmd.entity)

\* the unwrap() of Despawn::write, Insert::write and InsertOne::write panics
WriteFails(cmd, w) ==
    /\ cmd.kind \in {"Despawn", "Insert", "InsertOne"}
    /\ ~Contains(w, cmd.entity)

\* variant: InsertOne::write leaves the world as it is
WorldWrite_InsertOneSkipped(cmd, w, first) ==
    CASE cmd.kind = "SpawnAsEntity" -> World_spawn_as_entity(w, cmd.entity, cmd.bundles[1])
      [] cmd.kind = "SpawnBatch" -> World_spawn_batch(w, cmd.bundles, first)
      [] cmd.kind = "Despawn" -> World_despawn(w, cmd.entity)
      [] cmd.kind = "Insert" -> World_insert(w, cmd.entity, cmd.bundles[1])
      [] OTHER -> w

\* WorldWriter::write of each world-mutating command
WorldWrite(cmd, w, first) ==
    CASE cmd.kind = "SpawnAsEntity" -> World_spawn_as_entity(w, cmd.entity, cmd.bundles[1])
      [] cmd.kind = "SpawnBatch" -> World_spawn_batch(w, cmd.bundles, first)
      [] cmd.kind = "Despawn" -> World_despawn(w, cmd.entity)
      [] cmd.kind = "Insert" -> World_insert(w, cmd.entity, cmd.bundles[1])
      [] cmd.kind = "InsertOne" -> World_insert(w, cmd.entity, cmd.bundles[1])
      [] OTHER -> w

\* identifiers World::spawn_batch allocates while the command is written
Allocates(cmd) == IF cmd.kind = "SpawnBatch" THEN Len(cmd.bundles) ELSE 0

\* variant: InsertResource::write goes to the local scope of no system
ResourcesWrite_AllLocal(cmd, r) ==
    CASE cmd.kind = "InsertResource" -> Resources_insert_local(r, "", cmd.res)
      [] cmd.kind = "InsertLocalResource" -> Resources_insert_local(r, cmd.system_id, cmd.res)
      [] OTHER -> r

\* variant: InsertLocalResource::write forgets the system it was built for
ResourcesWrite_OneLocalScope(cmd, r) ==
    CASE cmd.kind = "InsertResource" -> Resources_insert(r, cmd.res)
      [] cmd.kind = "InsertLocalResource" -> Resources_insert_local(r, "", cmd.res)
      [] OTHER -> r

\* ResourcesWriter::write of each resource-mutating command
ResourcesWrite(cmd, r) ==
    CASE cmd.kind = "InsertResource" -> Resources_insert(r, cmd.res)
      [] cmd.kind = "InsertLocalResource" -> Resources_insert_local(r, cmd.system_id, cmd.res)
      [] OTHER -> r

\* variant: the command goes to the front of the Vec
Push_Front(cmds, cmd) == <<cmd>> \o cmds

\* Vec::push
Push(cmds, cmd) == Append(cmds, cmd)

\* variant: the buffer is emptied from the back
DrainNext_Back(d, pos) == d[Len(d) + 1 - pos]

\* the Drain iterator's next(), and whether it has one
DrainNext(d, pos) == d[pos]
DrainDone(d, pos) == pos > Len(d)

\* what the Drain still holds from pos on: dropped with it
DrainRemainder(d, pos) == SubSeq(d, pos, Len(d))

\* FlexSurface::default(): empty maps and Stretch::new()
FlexSurface_default ==
    /\ entity_to_stretch = EmptyFcn
    /\ stretch_to_entity = EmptyFcn
    /\ window_nodes = EmptyFcn
    /\ stretch = EmptyFcn
    /\ lastFlexCall = [op |-> "none", entity |-> 0, outcome |-> "none"]

(***************************************************************************)
(* Initial state: Commands::default() and its clones (#[derive(Clone)]:    *)
(* every clone holds the same Arc<Mutex<CommandsInternal>>),               *)
(* World::default(), Resources::default(); and FlexSurface::default().     *)
(***************************************************************************)
Init ==
    /\ commands = <<>>
    /\ current_entity = {}
    /\ poisoned = FALSE
    /\ lock = {}
    /\ draining = <<>>
    /\ drainPos = 1
    /\ handles = Clones
    /\ world = EmptyFcn
    /\ resources = [global |-> EmptyFcn, local |-> EmptyFcn]
    /\ nextEntity = Cardinality(ReservedEntities) + 1
    /\ nextId = 1
    /\ callSeq = [c \in Callers |-> 0]
    /\ applied = <<>>
    /\ dropped = {}
    /\ enqueued = {}
    /\ lastCall = [op |-> "none", by |-> Anonymous, outcome |-> "none"]
    /\ FlexSurface_default

(***************************************************************************)
(* The enqueue methods of the shared handle.  Each takes the lock, does    *)
(* its one step and releases the lock, so each is one atomic action; a     *)
(* call made while an apply holds the lock waits for it.                   *)
(***************************************************************************)
CanCall(c) ==
    /\ c \in handles
    /\ lock = {}
    /\ nextId <= MaxCmds

\* the call returns or panics: the ticket and the caller's position advance
Returned(who, op, outcome) ==
    /\ nextId' = nextId + 1
    /\ callSeq' = [callSeq EXCEPT ![who] = @ + 1]
    /\ lastCall' = [op |-> op, by |-> who, outcome |-> outcome]
    /\ UNCHANGED flexVars

\* lock().unwrap() on a poisoned Mutex panics before the buffer is touched
LockPoisoned(who, op) ==
    /\ Returned(who, op, "LockPoisoned")
    /\ UNCHANGED <<commands, current_entity, poisoned, lock, draining, drainPos, handles,
                   world, resources, applied, dropped, enqueued>>

\* variant: the command is put on the Vec twice
Pushed_Twice(who, op, cmd) ==
    /\ commands' = Push(Push(commands, cmd), cmd)
    /\ Returned(who, op, "ok")
    /\ enqueued' = enqueued \cup {cmd.id}
    /\ UNCHANGED <<poisoned, lock, draining, drainPos, handles, world, resources,
                   applied, dropped>>

\* commands.push(...) under the lock
Pushed(who, op, cmd) ==
    /\ commands' = Push(commands, cmd)
    /\ Returned(who, op, "ok")
    /\ enqueued' = enqueued \cup {cmd.id}
    /\ UNCHANGED <<poisoned, lock, draining, drainPos, handles, world, resources,
                   applied, dropped>>

\* variant: the cursor is set only while it is None
CommandsInternal_spawn_as_entity_KeepCursor(who, op, entity, bundle) ==
    /\ current_entity' = IF current_entity = {} THEN {entity} ELSE current_entity
    /\ Pushed(who, op, MkCommand(who, op, "SpawnAsEntity", entity, <<bundle>>, NoResource, ""))

\* CommandsInternal::spawn_as_entity
CommandsInternal_spawn_as_entity(who, op, entity, bundle) ==
    /\ current_entity' = {entity}
    /\ Pushed(who, op, MkCommand(who, op, "SpawnAsEntity", entity, <<bundle>>, NoResource, ""))

\* CommandsInternal::with_bundle
CommandsInternal_with_bundle(who, bundle) ==
    IF current_entity = {}
    THEN /\ poisoned' = TRUE
         /\ Returned(who, "with_bundle", "MissingEntityContext")
         /\ UNCHANGED <<commands, current_entity, lock, draining, drainPos, handles,
                        world, resources, nextEntity, applied, dropped, enqueued>>
    ELSE /\ Pushed(who, "with_bundle",
                   MkCommand(who, "with_bundle", "Insert",
                             CHOOSE e \in current_entity : TRUE, <<bundle>>, NoResource, ""))
         /\ UNCHANGED <<current_entity, nextEntity>>

\* variant: without a cursor the component goes to a default entity
CommandsInternal_with_Default(who, component) ==
    /\ Pushed(who, "with",
              MkCommand(who, "with", "InsertOne",
                        IF current_entity = {} THEN 0 ELSE CHOOSE e \in current_entity : TRUE,
                        <<component>>, NoResource, ""))
    /\ UNCHANGED <<current_entity, nextEntity>>

\* variant: the expect() fails before the lock is taken, so nothing is
\* poisoned
CommandsInternal_with_Unpoisoned(who, component) ==
    IF current_entity = {}
    THEN /\ Returned(who, "with", "MissingEntityContext")
         /\ UNCHANGED <<commands, current_entity, poisoned, lock, draining, drainPos,
                        handles, world, resources, nextEntity, applied, dropped, enqueued>>
    ELSE /\ Pushed(who, "with",
                   MkCommand(who, "with", "InsertOne",
                             CHOOSE e \in current_entity : TRUE, <<component>>, NoResource, ""))
         /\ UNCHANGED <<current_entity, nextEntity>>

\* CommandsInternal::with
CommandsInternal_with(who, component) ==
    IF current_entity = {}
    THEN /\ poisoned' = TRUE
         /\ Returned(who, "with", "MissingEntityContext")
         /\ UNCHANGED <<commands, current_entity, lock, draining, drainPos, handles,
                        world, resources, nextEntity, applied, dropped, enqueued>>
    ELSE /\ Pushed(who, "with",
                   MkCommand(who, "with", "InsertOne",
                             CHOOSE e \in current_entity : TRUE, <<component>>, NoResource, ""))
         /\ UNCHANGED <<current_entity, nextEntity>>

\* variant: spawn writes the world at once as well
Spawn_Eager(c, who, bundle) ==
    /\ CanCall(c)
    /\ ~poisoned
    /\ nextEntity' = nextEntity + 1
    /\ current_entity' = {nextEntity}
    /\ commands' = Push(commands, MkCommand(who, "spawn", "SpawnAsEntity", nextEntity,
                                            <<bundle>>, NoResource, ""))
    /\ enqueued' = enqueued \cup {nextId}
    /\ Returned(who, "spawn", "ok")
    /\ world' = World_spawn_as_entity(world, nextEntity, bundle)
    /\ UNCHANGED <<poisoned, lock, draining, drainPos, handles, resources, applied, dropped>>

\* Commands::spawn: Entity::new(), then spawn_as_entity
Spawn(c, who, bundle) ==
    /\ CanCall(c)
    /\ nextEntity' = nextEntity + 1
    /\ IF poisoned
       THEN LockPoisoned(who, "spawn")
       ELSE CommandsInternal_spawn_as_entity(who, "spawn", nextEntity, bundle)

\* Commands::spawn_as_entity
SpawnAsEntity(c, who, entity, bundle) ==
    /\ CanCall(c)
    /\ UNCHANGED nextEntity
    /\ IF poisoned
       THEN LockPoisoned(who, "spawn_as_entity")
       ELSE CommandsInternal_spawn_as_entity(who, "spawn_as_entity", entity, bundle)

\* variant: an empty iterator pushes nothing
SpawnBatch_SkipEmpty(c, who, bundles) ==
    /\ CanCall(c)
    /\ UNCHANGED nextEntity
    /\ IF poisoned
       THEN LockPoisoned(who, "spawn_batch")
       ELSE IF bundles = <<>>
            THEN /\ Returned(who, "spawn_batch", "ok")
                 /\ UNCHANGED <<commands, current_entity, poisoned, lock, draining, drainPos,
                                handles, world, resources, applied, dropped, enqueued>>
            ELSE /\ Pushed(who, "spawn_batch",
                           MkCommand(who, "spawn_batch", "SpawnBatch", 0, bundles,
                                     NoResource, ""))
                 /\ UNCHANGED current_entity

\* Commands::spawn_batch
SpawnBatch(c, who, bundles) ==
    /\ CanCall(c)
    /\ UNCHANGED nextEntity
    /\ IF poisoned
       THEN LockPoisoned(who, "spawn_batch")
       ELSE /\ Pushed(who, "spawn_batch",
                      MkCommand(who, "spawn_batch", "SpawnBatch", 0, bundles, NoResource, ""))
            /\ UNCHANGED current_entity

\* Commands::despawn
Despawn(c, who, entity) ==
    /\ CanCall(c)
    /\ UNCHANGED nextEntity
    /\ IF poisoned
       THEN LockPoisoned(who, "despawn")
       ELSE /\ Pushed(who, "despawn",
                      MkCommand(who, "despawn", "Despawn", entity, <<>>, NoResource, ""))
            /\ UNCHANGED current_entity

\* Commands::with
With(c, who, component) ==
    /\ CanCall(c)
    /\ IF poisoned
       THEN LockPoisoned(who, "with") /\ UNCHANGED nextEntity
       ELSE CommandsInternal_with(who, component)

\* Commands::with_bundle
WithBundle(c, who, bundle) ==
    /\ CanCall(c)
    /\ IF poisoned
       THEN LockPoisoned(who, "with_bundle") /\ UNCHANGED nextEntity
       ELSE CommandsInternal_with_bundle(who, bundle)

\* Commands::insert
Insert(c, who, entity, bundle) ==
    /\ CanCall(c)
    /\ UNCHANGED nextEntity
    /\ IF poisoned
       THEN LockPoisoned(who, "insert")
       ELSE /\ Pushed(who, "insert",
                      MkCommand(who, "insert", "Insert", entity, <<bundle>>, NoResource, ""))
            /\ UNCHANGED current_entity

\* Commands::insert_one
InsertOne(c, who, entity, component) ==
    /\ CanCall(c)
    /\ UNCHANGED nextEntity
    /\ IF poisoned
       THEN LockPoisoned(who, "insert_one")
       ELSE /\ Pushed(who, "insert_one",
                      MkCommand(who, "insert_one", "InsertOne", entity, <<component>>,
                                NoResource, ""))
            /\ UNCHANGED current_entity

\* Commands::insert_resource
InsertResource(c, who, res) ==
    /\ CanCall(c)
    /\ UNCHANGED nextEntity
    /\ IF poisoned
       THEN LockPoisoned(who, "insert_resource")
       ELSE /\ Pushed(who, "insert_resource",
                      MkCommand(who, "insert_resource", "InsertResource", 0, <<>>, res, ""))
            /\ UNCHANGED current_entity

\* Commands::insert_local_resource
InsertLocalResource(c, who, system_id, res) ==
    /\ CanCall(c)
    /\ UNCHANGED nextEntity
    /\ IF poisoned
       THEN LockPoisoned(who, "insert_local_resource")
       ELSE /\ Pushed(who, "insert_local_resource",
                      MkCommand(who, "insert_local_resource", "InsertLocalResource", 0, <<>>,
                                res, system_id))
            /\ UNCHANGED current_entity

(***************************************************************************)
(* Commands::apply.  It consumes the handle, takes the lock, drains the    *)
(* Vec and writes one command per iteration of the loop; a panic in a      *)
(* writer unwinds out of the loop, drops the Drain with what it still      *)
(* holds, and drops the MutexGuard, which poisons the Mutex.               *)
(***************************************************************************)
\* variant: the drain leaves out the youngest command, which is lost
ApplyBegin_DropsYoungest(c, who) ==
    /\ c \in handles
    /\ lock = {}
    /\ handles' = handles \ {c}
    /\ IF poisoned
       THEN /\ lastCall' = [op |-> "apply", by |-> who, outcome |-> "LockPoisoned"]
            /\ UNCHANGED <<commands, lock, draining, drainPos>>
       ELSE /\ lock' = {c}
            /\ draining' = SubSeq(commands, 1, Len(commands) - 1)
            /\ drainPos' = 1
            /\ commands' = <<>>
            /\ lastCall' = [op |-> "apply", by |-> who, outcome |-> "running"]
    /\ UNCHANGED <<current_entity, poisoned, world, resources, nextEntity,
                   nextId, callSeq, applied, dropped, enqueued>>
    /\ UNCHANGED flexVars

\* variant: the drain takes the cursor along with the commands
ApplyBegin_ClearsCursor(c, who) ==
    /\ c \in handles
    /\ lock = {}
    /\ handles' = handles \ {c}
    /\ IF poisoned
       THEN /\ lastCall' = [op |-> "apply", by |-> who, outcome |-> "LockPoisoned"]
            /\ UNCHANGED <<commands, current_entity, lock, draining, drainPos>>
       ELSE /\ lock' = {c}
            /\ draining' = commands
            /\ drainPos' = 1
            /\ commands' = <<>>
            /\ current_entity' = {}
            /\ lastCall' = [op |-> "apply", by |-> who, outcome |-> "running"]
    /\ UNCHANGED <<poisoned, world, resources, nextEntity,
                   nextId, callSeq, applied, dropped, enqueued>>
    /\ UNCHANGED flexVars

\* variant: the loop iterates over the Vec without draining it
ApplyBegin_KeepsBuffer(c, who) ==
    /\ c \in handles
    /\ lock = {}
    /\ handles' = handles \ {c}
    /\ IF poisoned
       THEN /\ lastCall' = [op |-> "apply", by |-> who, outcome |-> "LockPoisoned"]
            /\ UNCHANGED <<lock, draining, drainPos>>
       ELSE /\ lock' = {c}
            /\ draining' = commands
            /\ drainPos' = 1
            /\ lastCall' = [op |-> "apply", by |-> who, outcome |-> "running"]
    /\ UNCHANGED <<commands, current_entity, poisoned, world, resources, nextEntity,
                   nextId, callSeq, applied, dropped, enqueued>>
    /\ UNCHANGED flexVars

\* self.commands.lock().unwrap() and commands.commands.drain(..)
ApplyBegin(c, who) ==
    /\ c \in handles
    /\ lock = {}
    /\ handles' = handles \ {c}
    /\ IF poisoned
       THEN /\ lastCall' = [op |-> "apply", by |-> who, outcome |-> "LockPoisoned"]
            /\ UNCHANGED <<commands, lock, draining, drainPos>>
       ELSE /\ lock' = {c}
            /\ draining' = commands
            /\ drainPos' = 1
            /\ commands' = <<>>
            /\ lastCall' = [op |-> "apply", by |-> who, outcome |-> "running"]
    /\ UNCHANGED <<current_entity, poisoned, world, resources, nextEntity,
                   nextId, callSeq, applied, dropped, enqueued>>
    /\ UNCHANGED flexVars

\* variant: a failing writer takes the rows and resources written so far
\* back out
ApplyStep_RollsBack ==
    /\ lock # {}
    /\ ~DrainDone(draining, drainPos)
    /\ LET cmd == DrainNext(draining, drainPos)
       IN IF WriteFails(cmd, world)
          THEN /\ poisoned' = TRUE
               /\ lock' = {}
               /\ dropped' = dropped \cup Ids(DrainRemainder(draining, drainPos))
               /\ draining' = <<>>
               /\ drainPos' = 1
               /\ lastCall' = [lastCall EXCEPT !.outcome = "ApplyTargetMissing"]
               /\ world' = EmptyFcn
               /\ resources' = [global |-> EmptyFcn, local |-> EmptyFcn]
               /\ UNCHANGED <<nextEntity, applied>>
          ELSE /\ drainPos' = drainPos + 1
               /\ applied' = Append(applied, cmd.id)
               /\ IF IsWriteWorld(cmd)
                  THEN /\ world' = WorldWrite(cmd, world, nextEntity)
                       /\ nextEntity' = nextEntity + Allocates(cmd)
                       /\ UNCHANGED resources
                  ELSE /\ resources' = ResourcesWrite(cmd, resources)
                       /\ UNCHANGED <<world, nextEntity>>
               /\ UNCHANGED <<poisoned, lock, draining, dropped, lastCall>>
    /\ UNCHANGED <<commands, current_entity, handles, nextId, callSeq, enqueued>>
    /\ UNCHANGED flexVars

\* one iteration of the for loop
ApplyStep ==
    /\ lock # {}
    /\ ~DrainDone(draining, drainPos)
    /\ LET cmd == DrainNext(draining, drainPos)
       IN IF WriteFails(cmd, world)
          THEN /\ poisoned' = TRUE
               /\ lock' = {}
               /\ dropped' = dropped \cup Ids(DrainRemainder(draining, drainPos))
               /\ draining' = <<>>
               /\ drainPos' = 1
               /\ lastCall' = [lastCall EXCEPT !.outcome = "ApplyTargetMissing"]
               /\ UNCHANGED <<world, resources, nextEntity, applied>>
          ELSE /\ drainPos' = drainPos + 1
               /\ applied' = Append(applied, cmd.id)
               /\ IF IsWriteWorld(cmd)
                  THEN /\ world' = WorldWrite(cmd, world, nextEntity)
                       /\ nextEntity' = nextEntity + Allocates(cmd)
                       /\ UNCHANGED resources
                  ELSE /\ resources' = ResourcesWrite(cmd, resources)
                       /\ UNCHANGED <<world, nextEntity>>
               /\ UNCHANGED <<poisoned, lock, draining, dropped, lastCall>>
    /\ UNCHANGED <<commands, current_entity, handles, nextId, callSeq, enqueued>>
    /\ UNCHANGED flexVars

\* the loop ends: the Drain and the MutexGuard are dropped
ApplyEnd ==
    /\ lock # {}
    /\ DrainDone(draining, drainPos)
    /\ lock' = {}
    /\ draining' = <<>>
    /\ drainPos' = 1
    /\ lastCall' = [lastCall EXCEPT !.outcome = "ok"]
    /\ UNCHANGED <<commands, current_entity, poisoned, handles, world,
                   resources, nextEntity, nextId, callSeq, applied, dropped, enqueued>>
    /\ UNCHANGED flexVars

\* one live handle to stand for all of them: the handles share the buffer, so
\* calls that are not attributed to a caller do the same through any of them
AnyHandle == {c \in handles : \A h \in handles : c <= h}

\* the callers are not told apart: every call is attributed to Anonymous
Next ==
    \/ \E c \in AnyHandle, b \in SpawnBundles : Spawn(c, Anonymous, b)
    \/ \E c \in AnyHandle, e \in ReservedEntities, b \in SpawnBundles :
          SpawnAsEntity(c, Anonymous, e, b)
    \/ \E c \in AnyHandle, bs \in BatchInputs : SpawnBatch(c, Anonymous, bs)
    \/ \E c \in AnyHandle, e \in ReservedEntities : Despawn(c, Anonymous, e)
    \/ \E c \in AnyHandle, k \in Components : With(c, Anonymous, k)
    \/ \E c \in AnyHandle, b \in WithBundles : WithBundle(c, Anonymous, b)
    \/ \E c \in AnyHandle, e \in ReservedEntities, b \in Bundles :
          Insert(c, Anonymous, e, b)
    \/ \E c \in AnyHandle, e \in ReservedEntities, k \in Components :
          InsertOne(c, Anonymous, e, k)
    \/ \E c \in AnyHandle, r \in ResourceInputs : InsertResource(c, Anonymous, r)
    \/ \E c \in AnyHandle, s \in SystemIds, r \in ResourceInputs :
          InsertLocalResource(c, Anonymous, s, r)
    \/ \E c \in AnyHandle : ApplyBegin(c, Anonymous)
    \/ ApplyStep
    \/ ApplyEnd

Spec == Init /\ [][Next]_vars

(***************************************************************************)
(* The same handle with its callers told apart: every call is attributed   *)
(* to the clone it is made through, one input per method.                  *)
(***************************************************************************)
TheEntity == CHOOSE e \in ReservedEntities : \A x \in ReservedEntities : e <= x
TheComponent == CHOOSE k \in Components : TRUE
TheSystem == CHOOSE x \in SystemIds : TRUE

\* the callers are interchangeable, so they are numbered in the order in
\* which they first act: a clone acts once every clone before it has
Callable ==
    {c \in handles : \A d \in Clones : d < c => (callSeq[{d}] > 0 \/ d \notin handles)}

NextCallers ==
    \/ \E c \in Callable : Spawn(c, {c}, B12)
    \/ \E c \in Callable : SpawnAsEntity(c, {c}, TheEntity, B12)
    \/ \E c \in Callable : SpawnBatch(c, {c}, BatchOf(MaxBatch))
    \/ \E c \in Callable : Despawn(c, {c}, TheEntity)
    \/ \E c \in Callable : With(c, {c}, TheComponent)
    \/ \E c \in Callable : WithBundle(c, {c}, B3)
    \/ \E c \in Callable : Insert(c, {c}, TheEntity, B3)
    \/ \E c \in Callable : InsertOne(c, {c}, TheEntity, TheComponent)
    \/ \E c \in Callable : InsertResource(c, {c}, Resource314)
    \/ \E c \in Callable : InsertLocalResource(c, {c}, TheSystem, Resource271)
    \/ \E c \in Callable : ApplyBegin(c, {c})
    \/ ApplyStep
    \/ ApplyEnd

SpecCallers == Init /\ [][NextCallers]_vars

TypeOK ==
    /\ current_entity \subseteq Nat
    /\ Cardinality(current_entity) <= 1
    /\ poisoned \in BOOLEAN
    /\ lock \subseteq Clones
    /\ Cardinality(lock) <= 1
    /\ handles \subseteq Clones
    /\ lock = {} => draining = <<>> /\ drainPos = 1
    /\ lock # {} => commands = <<>> /\ drainPos \in 1..(Len(draining) + 1)

(***************************************************************************)
(* Vocabulary of the properties.                                           *)
(***************************************************************************)
\* an enqueue call has just returned or panicked
Called(op) == nextId' = nextId + 1 /\ lastCall'.op = op

\* the apply loop has just dispatched the command cmd
Dispatched(cmd) ==
    /\ lock # {}
    /\ ~DrainDone(draining, drainPos)
    /\ cmd = draining[drainPos]
    /\ drainPos' = drainPos + 1

\* the commands a running apply has dispatched so far
DispatchedPrefix == SubSeq(draining, 1, drainPos - 1)

\* the row holds every component of the bundle
Holds(row, bundle) ==
    /\ DOMAIN bundle \subseteq DOMAIN row
    /\ \A f \in DOMAIN bundle : row[f] = bundle[f]

StrictlyIncreasing(s) == \A i, j \in DOMAIN s : i < j => s[i] < s[j]

(***************************************************************************)
(* C1.  Apply dispatches the queued commands in strict FIFO enqueue order, *)
(* world-mutating and resource-mutating commands interleaved as they were  *)
(* enqueued, and each exactly once: the dispatch log is strictly           *)
(* increasing in the enqueue tickets, everything still queued is younger   *)
(* than everything dispatched, the Drain yields in enqueue order, and when *)
(* an apply returns normally every command ever enqueued has been          *)
(* dispatched and the buffer is empty.                                     *)
(***************************************************************************)
C1_FifoExactlyOnce ==
    /\ StrictlyIncreasing(applied)
    /\ StrictlyIncreasing([i \in DOMAIN commands |-> commands[i].id])
    /\ StrictlyIncreasing([i \in DOMAIN draining |-> draining[i].id])
    /\ \A a \in Range(applied) :
          \A q \in Ids(commands) \cup Ids(DrainRemainder(draining, drainPos)) : a < q
    /\ lock # {} =>
          \A i \in 1..(drainPos - 1) :
             applied[Len(applied) - (drainPos - 1) + i] = draining[i].id
    /\ (lastCall.op = "apply" /\ lastCall.outcome = "ok") =>
          /\ commands = <<>>
          /\ Range(applied) = enqueued

\* an apply returned normally after dispatching three commands, world and
\* resource writers among them
C1_Witness ==
    /\ lastCall.op = "apply"
    /\ lastCall.outcome = "ok"
    /\ Len(applied) = 3
    /\ DOMAIN world # {}
    /\ DOMAIN resources.global # {}
    /\ DOMAIN resources.local # {}

(***************************************************************************)
(* C2.  When apply reaches a Despawn, Insert or InsertOne whose target is  *)
(* absent from the world, it fails with ApplyTargetMissing at that         *)
(* command: the step changes neither world nor resources, the failing      *)
(* command and everything queued behind it leave the buffer undispatched,  *)
(* and no command so discarded is ever dispatched.                         *)
(***************************************************************************)
C2_ReachesMissingTarget ==
    /\ lock # {}
    /\ ~DrainDone(draining, drainPos)
    /\ draining[drainPos].kind \in {"Despawn", "Insert", "InsertOne"}
    /\ draining[drainPos].entity \notin DOMAIN world

C2_AbortStep ==
    C2_ReachesMissingTarget =>
       /\ lastCall'.op = "apply"
       /\ lastCall'.outcome = "ApplyTargetMissing"
       /\ world' = world
       /\ resources' = resources
       /\ applied' = applied
       /\ commands' = <<>>
       /\ draining' = <<>>
       /\ Ids(DrainRemainder(draining, drainPos)) \subseteq dropped'

\* C2: the abort step, and nothing discarded is ever dispatched
C2_AbortOnMissingTarget ==
    /\ [][C2_AbortStep]_vars
    /\ [](dropped \cap Range(applied) = {})
    /\ [][dropped \subseteq dropped' /\ (dropped # {} => applied' = applied)]_vars

\* an apply failed on a missing target with a command queued behind it,
\* after it had dispatched one
C2_Witness ==
    /\ lastCall.op = "apply"
    /\ lastCall.outcome = "ApplyTargetMissing"
    /\ Cardinality(dropped) >= 2
    /\ applied # <<>>

(***************************************************************************)
(* C3.  with / with_bundle on a handle whose cursor was never set fails    *)
(* at enqueue time and pushes nothing.                                     *)
(***************************************************************************)
C3_CursorlessWith ==
    /\ current_entity = {}
    /\ Called("with") \/ Called("with_bundle")

\* C3 as claimed: the failure is always MissingEntityContext
C3_AlwaysMissingEntityContext ==
    [][C3_CursorlessWith =>
          /\ lastCall'.outcome = "MissingEntityContext"
          /\ commands' = commands]_vars

\* C3 amended: MissingEntityContext unless the lock is already poisoned, and
\* then LockPoisoned; either way at the call, with nothing pushed, applied
\* or written
C3_FailsAtEnqueue ==
    [][C3_CursorlessWith =>
          /\ lastCall'.outcome =
                IF poisoned THEN "LockPoisoned" ELSE "MissingEntityContext"
          /\ commands' = commands
          /\ enqueued' = enqueued
          /\ applied' = applied
          /\ world' = world
          /\ resources' = resources]_vars

\* a with on a never-spawned-on handle failed before any apply, with a
\* command of another call queued
C3_Witness ==
    /\ lastCall.op \in {"with", "with_bundle"}
    /\ lastCall.outcome = "MissingEntityContext"
    /\ current_entity = {}
    /\ commands # <<>>
    /\ applied = <<>>
    /\ handles = Clones

(***************************************************************************)
(* C4.  In a chain spawn / spawn_as_entity followed at once by with /      *)
(* with_bundle calls, with no apply in between, every Insert / InsertOne   *)
(* of the chain carries the entity of the chain's SpawnAsEntity, and when  *)
(* apply has dispatched the chain that entity is in the world holding the  *)
(* attached components.                                                    *)
(***************************************************************************)
\* s[j] is a with / with_bundle command of a chain that s[i] starts
Chain(s, i, j) ==
    /\ i < j
    /\ s[i].kind = "SpawnAsEntity"
    /\ \A k \in (i + 1)..j : s[k].via \in {"with", "with_bundle"}

C4_ChainInOrder(s) ==
    \A i, j \in DOMAIN s :
       Chain(s, i, j) =>
          /\ s[j].kind \in {"Insert", "InsertOne"}
          /\ s[j].entity = s[i].entity

\* C4: chains in the buffer and in a drain share the spawn's entity, which
\* is in the world when the chain's commands are dispatched
C4_ChainSharesEntity ==
    /\ C4_ChainInOrder(commands)
    /\ C4_ChainInOrder(draining)
    /\ lock # {} =>
          \A i, j \in DOMAIN draining :
             /\ (Chain(draining, i, j) /\ j = drainPos) =>
                   draining[i].entity \in DOMAIN world
             /\ (Chain(draining, i, j) /\ j = drainPos - 1) =>
                   /\ draining[i].entity \in DOMAIN world
                   /\ Holds(world[draining[i].entity], draining[j].bundles[1])

\* apply has just dispatched spawn(B12), with(..), with_bundle(B3): the
\* spawned entity holds what the two calls attached
C4_Witness ==
    /\ lock # {}
    /\ Len(draining) = 3
    /\ drainPos = 4
    /\ draining[1].via = "spawn"
    /\ draining[1].bundles[1] = B12
    /\ draining[2].via = "with"
    /\ draining[3].via = "with_bundle"
    /\ draining[3].bundles[1] = B3
    /\ \E e \in DOMAIN world : world[e].u32 = 3 /\ world[e].u64 = 2

(***************************************************************************)
(* C5.  The enqueue methods leave world and resources unchanged: only a    *)
(* dispatch step of apply changes them.  An entity enters the world only   *)
(* in the step that dispatches a spawn command naming it (or a batch), so  *)
(* the identifier a queued spawn pre-allocated is absent from the world    *)
(* until that step.                                                        *)
(***************************************************************************)
EnqueueOps ==
    {"spawn", "spawn_as_entity", "spawn_batch", "despawn", "with", "with_bundle",
     "insert", "insert_one", "insert_resource", "insert_local_resource"}

\* the commands not yet dispatched: queued, or still in a running Drain
Pending == commands \o DrainRemainder(draining, drainPos)

C5_EnqueueStep ==
    /\ (\E op \in EnqueueOps : Called(op)) => world' = world /\ resources' = resources
    /\ (world' # world \/ resources' # resources) =>
          \E i \in DOMAIN draining : Dispatched(draining[i])
    /\ \A e \in (DOMAIN world') \ (DOMAIN world) :
          \E i \in DOMAIN draining :
             /\ Dispatched(draining[i])
             /\ \/ draining[i].kind = "SpawnAsEntity" /\ draining[i].entity = e
                \/ draining[i].kind = "SpawnBatch"

\* C5: only dispatch steps write, and a queued spawn's entity is absent
C5_OnlyApplyMutates ==
    /\ [][C5_EnqueueStep]_vars
    /\ [](\A i \in DOMAIN Pending :
            Pending[i].via = "spawn" => Pending[i].entity \notin DOMAIN world)

\* after an apply filled the world, a spawn is queued whose entity is not
\* in it
C5_Witness ==
    /\ DOMAIN world # {}
    /\ DOMAIN resources.global # {}
    /\ lock = {}
    /\ \E i \in DOMAIN commands :
          commands[i].via = "spawn" /\ commands[i].entity \notin DOMAIN world

(***************************************************************************)
(* C6.  spawn_batch and the buffer.                                        *)
(***************************************************************************)
\* C6 as claimed: the call puts len(bundles) spawn operations on the buffer
C6_EnqueuesLenCommands ==
    [][(Called("spawn_batch") /\ lastCall'.outcome = "ok") =>
          Len(commands') =
             Len(commands) + Len(commands'[Len(commands')].bundles)]_vars

\* C6 amended: the call pushes one SpawnBatch command that carries the
\* bundles and adds no entity to the world; the apply step that dispatches
\* it adds len(bundles) new entities, one per bundle in the iterator's order,
\* and leaves the rows already there alone
C6_BatchStep ==
    /\ (Called("spawn_batch") /\ lastCall'.outcome = "ok") =>
          /\ Len(commands') = Len(commands) + 1
          /\ SubSeq(commands', 1, Len(commands)) = commands
          /\ commands'[Len(commands')].kind = "SpawnBatch"
          /\ world' = world
    /\ \A i \in DOMAIN draining :
          (Dispatched(draining[i]) /\ draining[i].kind = "SpawnBatch") =>
             LET bundles == draining[i].bundles
                 new == (DOMAIN world') \ (DOMAIN world)
             IN /\ DOMAIN world \subseteq DOMAIN world'
                /\ \A e \in DOMAIN world : world'[e] = world[e]
                /\ Cardinality(new) = Len(bundles)
                /\ \A k \in DOMAIN bundles :
                      Cardinality({e \in new : world'[e] = bundles[k]}) =
                         Cardinality({m \in DOMAIN bundles : bundles[m] = bundles[k]})

\* C6 amended, over every step
C6_OneCommandManyEntities == [][C6_BatchStep]_vars

\* apply has just dispatched a spawn_batch of MaxBatch bundles into a world
\* that held one entity
C6_Witness ==
    /\ lock # {}
    /\ drainPos = 3
    /\ draining[1].kind = "SpawnAsEntity"
    /\ draining[2].kind = "SpawnBatch"
    /\ Len(draining[2].bundles) = MaxBatch
    /\ Cardinality(DOMAIN world) = MaxBatch + 1

(***************************************************************************)
(* C9.  spawn((1u32, 2u64)) then insert_resource(3.14f32) on a fresh       *)
(* handle, applied to an empty world and empty resources: the query for    *)
(* (u32, u64) yields exactly [(1, 2)] from the one entity of the world,    *)
(* which holds just the bundle, and the f32 resource is 3.14.              *)
(***************************************************************************)
\* World::query::<(&u32, &u64)>: the entities whose row has both components
QueryU32U64(w) == {e \in DOMAIN w : {"u32", "u64"} \subseteq DOMAIN w[e]}

\* Resources::get::<T>
Resources_get(r, type) == IF type \in DOMAIN r.global THEN {r.global[type]} ELSE {}

C9_TestCase ==
    /\ lock # {}
    /\ Len(draining) = 2
    /\ drainPos = 3
    /\ applied = <<1, 2>>
    /\ draining[1].via = "spawn"
    /\ draining[1].bundles = <<B12>>
    /\ draining[2].via = "insert_resource"
    /\ draining[2].res = Resource314

\* C9: the outcome of the test's case
C9_CommandBufferTest ==
    C9_TestCase =>
       /\ Cardinality(DOMAIN world) = 1
       /\ \A e \in DOMAIN world : world[e] = B12
       /\ Cardinality(QueryU32U64(world)) = 1
       /\ \A e \in QueryU32U64(world) : <<world[e].u32, world[e].u64>> = <<1, 2>>
       /\ Resources_get(resources, "f32") = {314}
       /\ resources.local = EmptyFcn

C9_Witness == C9_TestCase /\ DOMAIN world # {}

(***************************************************************************)
(* C10.  insert_resource(v1) then insert_resource(v2) of one type: after   *)
(* apply the type's value is v2, whatever other commands are queued        *)
(* between and around them.  At every point of a drain the value of a type *)
(* is that of the last InsertResource of the type dispatched so far.       *)
(***************************************************************************)
C10_LastInsertResourceWins ==
    lock # {} =>
       \A j \in DOMAIN DispatchedPrefix :
          LET cmd == DispatchedPrefix[j]
          IN (/\ cmd.kind = "InsertResource"
              /\ \A k \in (j + 1)..Len(DispatchedPrefix) :
                    ~(/\ DispatchedPrefix[k].kind = "InsertResource"
                      /\ DispatchedPrefix[k].res.type = cmd.res.type))
             => Resources_get(resources, cmd.res.type) = {cmd.res.val}

\* insert_resource(3.14), another command, insert_resource(2.71), all
\* dispatched
C10_Witness ==
    /\ lock # {}
    /\ Len(draining) = 3
    /\ drainPos = 4
    /\ draining[1].kind = "InsertResource"
    /\ draining[1].res = Resource314
    /\ draining[2].kind # "InsertResource"
    /\ draining[3].kind = "InsertResource"
    /\ draining[3].res = Resource271
    /\ Resources_get(resources, "f32") = {271}

(***************************************************************************)
(* C7.  The clones of a handle enqueue into one sequence: commands are     *)
(* dispatched in the order in which their calls took the lock, whichever   *)
(* clone made them, and the commands of one caller stand in the buffer,    *)
(* and are dispatched, in that caller's program order.                     *)
(***************************************************************************)
C7_InOrder(s) ==
    \A i, j \in DOMAIN s :
       i < j =>
          /\ s[i].id < s[j].id
          /\ s[i].by = s[j].by => s[i].seq < s[j].seq

\* C7: one sequence in lock order, each caller's commands in program order
C7_OneSharedSequence ==
    /\ C7_InOrder(commands)
    /\ C7_InOrder(draining)
    /\ StrictlyIncreasing(applied)
    /\ \A a \in Range(applied) : \A q \in Ids(Pending) : a < q
    /\ lock # {} =>
          /\ Len(applied) >= Len(DispatchedPrefix)
          /\ SubSeq(applied, Len(applied) - Len(DispatchedPrefix) + 1, Len(applied)) =
                [i \in DOMAIN DispatchedPrefix |-> DispatchedPrefix[i].id]

\* apply has dispatched three commands that two callers enqueued in turn
C7_Witness ==
    /\ lock # {}
    /\ Len(draining) = 3
    /\ drainPos = 4
    /\ draining[1].by = {1}
    /\ draining[2].by = {2}
    /\ draining[3].by = {1}
    /\ draining[3].seq = 2

(***************************************************************************)
(* C8.  Once enqueued, a command is eventually dispatched unless an apply  *)
(* aborts on a fatal condition, and nothing else takes it off the buffer:  *)
(* a command stops being pending only by being dispatched or by being      *)
(* discarded by an aborting drain.  The coordinator applies every handle:  *)
(* apply stays enabled while a handle is left, and its loop runs to        *)
(* completion.                                                             *)
(***************************************************************************)
\* every method with one input, the callers not told apart
NextLive ==
    \/ \E c \in AnyHandle : Spawn(c, Anonymous, B12)
    \/ \E c \in AnyHandle : SpawnAsEntity(c, Anonymous, TheEntity, B12)
    \/ \E c \in AnyHandle : SpawnBatch(c, Anonymous, BatchOf(MaxBatch))
    \/ \E c \in AnyHandle : Despawn(c, Anonymous, TheEntity)
    \/ \E c \in AnyHandle : With(c, Anonymous, TheComponent)
    \/ \E c \in AnyHandle : WithBundle(c, Anonymous, B3)
    \/ \E c \in AnyHandle : Insert(c, Anonymous, TheEntity, B3)
    \/ \E c \in AnyHandle : InsertOne(c, Anonymous, TheEntity, TheComponent)
    \/ \E c \in AnyHandle : InsertResource(c, Anonymous, Resource314)
    \/ \E c \in AnyHandle : InsertLocalResource(c, Anonymous, TheSystem, Resource271)
    \/ \E c \in AnyHandle : ApplyBegin(c, Anonymous)
    \/ ApplyStep
    \/ ApplyEnd

LiveSpec ==
    /\ Init
    /\ [][NextLive]_vars
    /\ WF_vars(\E c \in AnyHandle : ApplyBegin(c, Anonymous))
    /\ WF_vars(ApplyStep)
    /\ WF_vars(ApplyEnd)

ApplyAborted ==
    /\ lastCall.op = "apply"
    /\ lastCall.outcome \in {"ApplyTargetMissing", "LockPoisoned"}

C8_LeavesOnlyByApply ==
    \A id \in Ids(Pending) \ Ids(Pending') :
       id \in Range(applied') \/ id \in dropped'

Resources_get_local(r, system_id, type) ==
    IF <<system_id, type>> \in DOMAIN r.local THEN {r.local[<<system_id, type>>]} ELSE {}

\* the key a resource command writes, and what the resources hold under it
C11_Key(cmd) == <<cmd.kind, cmd.system_id, cmd.res.type>>
C11_Stored(cmd) ==
    IF cmd.kind = "InsertResource"
    THEN Resources_get(resources, cmd.res.type)
    ELSE Resources_get_local(resources, cmd.system_id, cmd.res.type)

\* C11: every key holds the last value written to that particular key
C11_EachKeyKeepsItsLastValue ==
    lock # {} =>
       \A j \in DOMAIN DispatchedPrefix :
          LET cmd == DispatchedPrefix[j]
          IN (/\ cmd.kind \in ResourceKinds
              /\ \A k \in (j + 1)..Len(DispatchedPrefix) :
                    ~(/\ DispatchedPrefix[k].kind \in ResourceKinds
                      /\ C11_Key(DispatchedPrefix[k]) = C11_Key(cmd)))
             => C11_Stored(cmd) = {cmd.res.val}

\* insert_local_resource(sysA, 3.14), insert_local_resource(sysB, 2.71) and
\* insert_resource(3.14) of one type, all dispatched: three values are held
C11_Witness ==
    /\ lock # {}
    /\ Len(draining) = 3
    /\ drainPos = 4
    /\ draining[1].kind = "InsertLocalResource"
    /\ draining[1].system_id = "sysA"
    /\ draining[1].res = Resource314
    /\ draining[2].kind = "InsertLocalResource"
    /\ draining[2].system_id = "sysB"
    /\ draining[2].res = Resource271
    /\ draining[3].kind = "InsertResource"
    /\ draining[3].res = Resource314
    /\ Resources_get_local(resources, "sysA", "f32") = {314}
    /\ Resources_get_local(resources, "sysB", "f32") = {271}
    /\ Resources_get(resources, "f32") = {314}

(***************************************************************************)
(* C12.  Insert and InsertOne commands are last-write-wins component by    *)
(* component: at every point of a drain, a component a dispatched Insert   *)
(* or InsertOne wrote on an entity has that command's value unless a later *)
(* dispatched command wrote the component on the entity again or removed   *)
(* or re-created the entity.  The entity keeps the components earlier      *)
(* commands gave it that the last command does not carry.                  *)
(***************************************************************************)
C12_InsertKinds == {"Insert", "InsertOne"}

\* the dispatched command at k replaces or removes the whole row of entity e
C12_Resets(k, e) ==
    /\ DispatchedPrefix[k].kind \in {"SpawnAsEntity", "Despawn"}
    /\ DispatchedPrefix[k].entity = e

\* the dispatched command at k is an Insert or InsertOne targeting e
C12_Targets(k, e) ==
    /\ DispatchedPrefix[k].kind \in C12_InsertKinds
    /\ DispatchedPrefix[k].entity = e

\* the command at j is the last dispatched one that targeted its entity
C12_LastOnEntity(j) ==
    /\ DispatchedPrefix[j].kind \in C12_InsertKinds
    /\ \A k \in (j + 1)..Len(DispatchedPrefix) :
          /\ ~C12_Resets(k, DispatchedPrefix[j].entity)
          /\ ~C12_Targets(k, DispatchedPrefix[j].entity)

\* the claim as stated: the entity holds exactly the last command's components
C12_HoldsExactlyLast ==
    lock # {} =>
       \A j \in DOMAIN DispatchedPrefix :
          C12_LastOnEntity(j) =>
             /\ Contains(world, DispatchedPrefix[j].entity)
             /\ world[DispatchedPrefix[j].entity] = DispatchedPrefix[j].bundles[1]

\* C12: each component has the value of the last command that wrote it
C12_LastWriteWinsPerComponent ==
    lock # {} =>
       \A j \in DOMAIN DispatchedPrefix :
          LET cmd == DispatchedPrefix[j]
          IN cmd.kind \in C12_InsertKinds =>
                \A f \in DOMAIN cmd.bundles[1] :
                   (\A k \in (j + 1)..Len(DispatchedPrefix) :
                       /\ ~C12_Resets(k, cmd.entity)
                       /\ ~(C12_Targets(k, cmd.entity)
                            /\ f \in DOMAIN DispatchedPrefix[k].bundles[1]))
                   => /\ Contains(world, cmd.entity)
                      /\ f \in DOMAIN world[cmd.entity]
                      /\ world[cmd.entity][f] = cmd.bundles[1][f]

\* an entity spawned with (1u32, 2u64), then insert_one(7u32) on it: the
\* entity holds the new u32 and still the u64 of the spawn
C12_Witness ==
    /\ lock # {}
    /\ drainPos = Len(draining) + 1
    /\ \E j \in DOMAIN DispatchedPrefix :
          /\ C12_LastOnEntity(j)
          /\ DispatchedPrefix[j].kind = "InsertOne"
          /\ DispatchedPrefix[j].bundles = <<[u32 |-> 7]>>
          /\ world[DispatchedPrefix[j].entity] = [u32 |-> 7, u64 |-> 2]

(***************************************************************************)
(* C13.  A critical section on the shared buffer covers one push or the    *)
(* dispatch of one command: whoever holds the lock has dispatched at most  *)
(* one command since taking it, so that a caller waiting for the lock      *)
(* waits for no more than one command.  The MutexGuard apply takes lives   *)
(* until apply returns, so this fails as soon as a drain of two commands   *)
(* reaches its second one.                                                 *)
(***************************************************************************)
C13_OneCommandPerCriticalSection ==
    lock # {} => Len(DispatchedPrefix) <= 1

(***************************************************************************)
(* C14.  Every enqueue call that returns normally has appended exactly one *)
(* command, its own, to the end of the shared buffer; a call that fails    *)
(* leaves the buffer as it is; nothing else touches the buffer but the     *)
(* drain of an apply, which takes all of it.  So, whatever the             *)
(* interleaving of the callers, the buffer holds no command twice and its  *)
(* length is the number of calls that returned normally since the last     *)
(* drain.                                                                  *)
(***************************************************************************)
\* an enqueue call has just returned normally / has just failed
C14_Succeeds == nextId' = nextId + 1 /\ lastCall'.outcome = "ok"
C14_Fails == nextId' = nextId + 1 /\ lastCall'.outcome # "ok"
\* an apply has just taken the lock and the contents of the buffer
C14_Drains == lock = {} /\ lock' # {}

C14_Step ==
    /\ C14_Succeeds =>
          /\ commands' = Append(commands, commands'[Len(commands')])
          /\ commands'[Len(commands')].by = lastCall'.by
          /\ commands'[Len(commands')].seq = callSeq'[lastCall'.by]
          /\ commands'[Len(commands')].via = lastCall'.op
    /\ C14_Fails => commands' = commands
    /\ C14_Drains => commands' = <<>> /\ draining' = commands
    /\ ~(C14_Succeeds \/ C14_Fails \/ C14_Drains) => commands' = commands

\* the commands some drain has taken out of the buffer
C14_Drained == Range(applied) \cup dropped \cup Ids(draining)

\* C14: one command per successful call, none lost, none duplicated
C14_OnePushPerCall ==
    /\ [][C14_Step]_vars
    /\ [](/\ \A i, j \in DOMAIN commands : i # j => commands[i].id # commands[j].id
          /\ Ids(commands) = enqueued \ C14_Drained
          /\ Len(commands) = Cardinality(enqueued \ C14_Drained))

\* three calls through two clones, interleaved, each left its one command
C14_Witness ==
    /\ Len(commands) = 3
    /\ commands[1].by # commands[2].by
    /\ commands[3].by = commands[1].by
    /\ lastCall.outcome = "ok"

(***************************************************************************)
(* C15.  An apply that aborts at its k-th command rolls nothing back: the  *)
(* aborting step leaves the world and the resources as commands 1..k-1     *)
(* wrote them, those k-1 commands are in the dispatch log, and from then   *)
(* on no step of any clone writes the world or the resources or adds to    *)
(* the log.  No command is in the log twice.                               *)
(***************************************************************************)
\* the running apply has just aborted
C15_Aborts ==
    /\ lock # {}
    /\ lastCall'.op = "apply"
    /\ lastCall'.outcome = "ApplyTargetMissing"

\* no command dispatched after the one at i undid what it wrote
C15_Survives(i) ==
    \A k \in (i + 1)..(drainPos - 1) :
       /\ draining[k].kind \in ResourceKinds => C11_Key(draining[k]) # C11_Key(draining[i])
       /\ draining[k].kind = "Despawn" => draining[k].entity # draining[i].entity

\* what the command cmd wrote is there to be read in the world w and the
\* resources r
C15_Visible(cmd, w, r) ==
    /\ cmd.kind = "SpawnAsEntity" => Contains(w, cmd.entity)
    /\ cmd.kind = "InsertResource" => Resources_get(r, cmd.res.type) = {cmd.res.val}
    /\ cmd.kind = "InsertLocalResource" =>
          Resources_get_local(r, cmd.system_id, cmd.res.type) = {cmd.res.val}

C15_Step ==
    /\ C15_Aborts =>
          /\ world' = world
          /\ resources' = resources
          /\ applied' = applied
          /\ \A i \in 1..(drainPos - 1) : draining[i].id \in Range(applied')
          /\ \A i \in 1..(drainPos - 1) :
                C15_Survives(i) => C15_Visible(draining[i], world', resources')
          /\ commands' = <<>>
    /\ dropped # {} =>
          /\ world' = world
          /\ resources' = resources
          /\ applied' = applied

\* C15: no rollback, exactly once, no re-execution
C15_NoRollbackNoReexecution ==
    /\ [][C15_Step]_vars
    /\ [](\A i, j \in DOMAIN applied : i # j => applied[i] # applied[j])

\* an apply dispatched a spawn and aborted at its second command; the
\* spawned entity is in the world and a later call has been turned away
C15_Witness ==
    /\ dropped # {}
    /\ applied = <<1>>
    /\ Cardinality(DOMAIN world) = 1
    /\ lastCall.op \in EnqueueOps
    /\ lastCall.outcome = "LockPoisoned"

(***************************************************************************)
(* C16.  The cursor is a field of the shared buffer.  A with or            *)
(* with_bundle that returns normally, through whatever clone, has pushed   *)
(* an insert for the entity the cursor held, and a spawn or                *)
(* spawn_as_entity, through whatever clone, has set the cursor to its      *)
(* entity; so in the buffer every with follows the nearest spawn before    *)
(* it, its own caller's or another's.                                      *)
(***************************************************************************)
C16_SpawnOps == {"spawn", "spawn_as_entity"}
C16_WithOps == {"with", "with_bundle"}

\* in s, the spawn at i is the most recent one before the with at j
C16_MostRecentSpawn(s, i, j) ==
    /\ i < j
    /\ s[i].via \in C16_SpawnOps
    /\ s[j].via \in C16_WithOps
    /\ \A k \in (i + 1)..(j - 1) : s[k].via \notin C16_SpawnOps

C16_Step ==
    /\ (\E op \in C16_SpawnOps : Called(op) /\ lastCall'.outcome = "ok") =>
          current_entity' = {commands'[Len(commands')].entity}
    /\ (\E op \in C16_WithOps : Called(op) /\ lastCall'.outcome = "ok") =>
          /\ commands'[Len(commands')].kind \in {"Insert", "InsertOne"}
          /\ commands'[Len(commands')].entity \in current_entity
          /\ current_entity' = current_entity

\* C16: with targets the most recent spawn of any clone
C16_CursorIsShared ==
    /\ [][C16_Step]_vars
    /\ [](\A i, j \in DOMAIN commands :
            C16_MostRecentSpawn(commands, i, j) => commands[j].entity = commands[i].entity)

\* one caller spawned, the other spawned, then the first caller's with went
\* to the entity the other caller spawned
C16_Witness ==
    /\ Len(commands) = 3
    /\ commands[1].via = "spawn"
    /\ commands[2].via = "spawn"
    /\ commands[3].via = "with"
    /\ commands[1].by # commands[2].by
    /\ commands[3].by = commands[1].by
    /\ commands[3].entity = commands[2].entity
    /\ commands[3].entity # commands[1].entity

(***************************************************************************)
(* C17.  The cursor changes only in a spawn or spawn_as_entity that        *)
(* returns normally.  Every other call and every step of apply leaves it   *)
(* as it is, so a with or with_bundle made while the cursor is set and the *)
(* lock is sound succeeds and targets the cursor's entity: whatever        *)
(* despawn, insert or spawn_batch calls came between, and also after an    *)
(* apply has drained the spawn that set it.                                *)
(***************************************************************************)
C17_Step ==
    /\ current_entity' # current_entity =>
          \E op \in C16_SpawnOps : Called(op) /\ lastCall'.outcome = "ok"
    /\ ((\E op \in C16_WithOps : Called(op)) /\ ~poisoned /\ current_entity # {}) =>
          /\ lastCall'.outcome = "ok"
          /\ commands'[Len(commands')].entity \in current_entity

\* C17: only spawn and spawn_as_entity move the cursor
C17_OnlySpawnMovesCursor ==
    /\ [][C17_Step]_vars
    /\ [](\A i, j \in DOMAIN Pending :
            C16_MostRecentSpawn(Pending, i, j) => Pending[j].entity = Pending[i].entity)
    /\ [](current_entity = {} =>
            \A i \in DOMAIN Pending : Pending[i].via \notin C16_SpawnOps)

\* after an apply that spawned an entity, a with through the surviving clone
\* has enqueued an insert for that entity
C17_Witness ==
    /\ lock = {}
    /\ handles # {}
    /\ handles # Clones
    /\ applied # <<>>
    /\ lastCall.op = "with"
    /\ lastCall.outcome = "ok"
    /\ Len(commands) = 1
    /\ commands[1].entity \in DOMAIN world
    /\ current_entity = {commands[1].entity}

(***************************************************************************)
(* C18.  A panic under the lock poisons the shared handle for good.  A     *)
(* with or with_bundle that fails with MissingEntityContext and an apply   *)
(* that aborts with ApplyTargetMissing leave the Mutex poisoned; it stays  *)
(* poisoned; and from then on every enqueue call and every apply, through  *)
(* whatever clone, fails with LockPoisoned and changes neither buffer nor  *)
(* world nor resources, so what is still in the buffer is never applied.   *)
(***************************************************************************)
\* a call has just failed on a fatal condition raised under the lock
C18_FailsUnderLock ==
    /\ lastCall' # lastCall
    /\ lastCall'.outcome \in {"MissingEntityContext", "ApplyTargetMissing"}

\* an apply has just been called
C18_ApplyCalled == handles' # handles

C18_Step ==
    /\ C18_FailsUnderLock => poisoned'
    /\ poisoned => poisoned'
    /\ (poisoned /\ ((\E op \in EnqueueOps : Called(op)) \/ C18_ApplyCalled)) =>
          lastCall'.outcome = "LockPoisoned"
    /\ poisoned =>
          /\ commands' = commands
          /\ applied' = applied
          /\ world' = world
          /\ resources' = resources
          /\ lock' = {}

\* C18: poisoned for good, and nothing is applied any more
C18_PoisonedForGood ==
    /\ [][C18_Step]_vars
    /\ [](poisoned => lock = {} /\ Ids(commands) \cap Range(applied) = {})

\* one caller's command is in the buffer, the other caller's with failed
\* for want of a cursor, and the apply that followed failed on the poisoned
\* lock: the command is still in the buffer, not applied
C18_Witness ==
    /\ poisoned
    /\ Len(commands) = 1
    /\ applied = <<>>
    /\ dropped = {}
    /\ lastCall.op = "apply"
    /\ lastCall.outcome = "LockPoisoned"
    /\ handles # Clones

(***************************************************************************)
(* C19.  An apply that returns normally leaves the shared buffer empty.    *)
(* So when apply is called on two clones of one handle, the lock letting   *)
(* one drain run after the other, a command is dispatched by the one drain *)
(* that holds it and was never dispatched before, and an apply that finds  *)
(* the buffer empty writes nothing to the world or the resources.          *)
(***************************************************************************)
\* the running apply has just returned normally
C19_Returns == lock # {} /\ lock' = {} /\ lastCall'.outcome = "ok"

C19_Step ==
    /\ C19_Returns => commands' = <<>> /\ Range(applied') = enqueued'
    /\ applied' # applied =>
          /\ lock # {}
          /\ ~DrainDone(draining, drainPos)
          /\ applied' = Append(applied, draining[drainPos].id)
          /\ draining[drainPos].id \notin Range(applied)
    /\ (C14_Drains /\ commands = <<>>) => draining' = <<>>
    /\ (lock # {} /\ draining = <<>>) =>
          /\ world' = world
          /\ resources' = resources
          /\ applied' = applied

\* C19: every command goes to exactly one of the drains
C19_OneDrainPerCommand ==
    /\ [][C19_Step]_vars
    /\ [](\A i, j \in DOMAIN applied : i < j => applied[i] # applied[j])
    /\ []((lastCall.op = "apply" /\ lastCall.outcome = "ok") => commands = <<>>)
    /\ [](lock # {} => commands = <<>> /\ Ids(draining) \cap Ids(commands) = {})

\* the apply of one clone dispatched the two commands enqueued; the apply
\* of the other clone, with nothing enqueued since, is running on an empty
\* drain
C19_Witness ==
    /\ handles = {}
    /\ lock # {}
    /\ draining = <<>>
    /\ Len(applied) = 2
    /\ Range(applied) = enqueued
    /\ DOMAIN world # {}

(***************************************************************************)
(* FlexSurface: the wrapper of the layout solver.  It keeps one solver     *)
(* node per entity, recorded in both directions, and one per window.       *)
(***************************************************************************)
MaxFlexEntities == 2

FlexEntities == 1..MaxFlexEntities

\* Style: the flex direction, and the size as Dimensions ({} is Auto, {p} is
\* Points(p))
DefaultStyle == [flex_direction |-> "Row", width |-> {}, height |-> {}]
StyleInputs == {DefaultStyle, [DefaultStyle EXCEPT !.flex_direction = "Column"]}

\* Window: the primary window, before and after a resize
WindowInputs ==
    {[id |-> "primary", width |-> 800, height |-> 600],
     [id |-> "primary", width |-> 1024, height |-> 768]}

\* Children: no child, the first entity, or every entity in order
ChildrenInputs == {<<>>, <<1>>, [i \in FlexEntities |-> i]}

\* Stretch::new_node: a node the solver did not have, with the style and the
\* children given
Stretch_new_node(st, style, children) ==
    LET node == Cardinality(DOMAIN st) + 1
    IN (node :> [style |-> style, children |-> children]) @@ st

\* the node Stretch::new_node returns
Stretch_new_node_id(st) == Cardinality(DOMAIN st) + 1

\* Stretch::set_style and Stretch::set_children on a node the solver has
Stretch_set_style(st, node, style) == [st EXCEPT ![node].style = style]
Stretch_set_children(st, node, children) == [st EXCEPT ![node].children = children]

\* HashMap::insert
HashMap_insert(m, k, v) == (k :> v) @@ m

\* a FlexSurface method returns or panics
FlexReturned(op, entity, outcome) ==
    /\ lastFlexCall' = [op |-> op, entity |-> entity, outcome |-> outcome]
    /\ UNCHANGED <<commands, current_entity, poisoned, lock, draining, drainPos, handles,
                   world, resources, nextEntity, nextId, callSeq, applied, dropped,
                   enqueued, lastCall>>

\* variant: every call makes a node, whether the entity has one or not
upsert_node_AlwaysNew(entity, style) ==
    /\ stretch' = Stretch_new_node(stretch, style, <<>>)
    /\ stretch_to_entity' =
          HashMap_insert(stretch_to_entity, Stretch_new_node_id(stretch), entity)
    /\ entity_to_stretch' =
          HashMap_insert(entity_to_stretch, entity, Stretch_new_node_id(stretch))
    /\ UNCHANGED window_nodes
    /\ FlexReturned("upsert_node", entity, "ok")

\* FlexSurface::upsert_node
upsert_node(entity, style) ==
    /\ IF entity \notin DOMAIN entity_to_stretch
       THEN /\ stretch' = Stretch_new_node(stretch, style, <<>>)
            /\ stretch_to_entity' =
                  HashMap_insert(stretch_to_entity, Stretch_new_node_id(stretch), entity)
            /\ entity_to_stretch' =
                  HashMap_insert(entity_to_stretch, entity, Stretch_new_node_id(stretch))
       ELSE /\ stretch' = Stretch_set_style(stretch, entity_to_stretch[entity], style)
            /\ UNCHANGED <<entity_to_stretch, stretch_to_entity>>
    /\ UNCHANGED window_nodes
    /\ FlexReturned("upsert_node", entity, "ok")

\* FlexSurface::update_children: the unwrap() of a lookup panics when the
\* entity or one of its children has no node
update_children(entity, children) ==
    /\ IF (Range(children) \cup {entity}) \subseteq DOMAIN entity_to_stretch
       THEN /\ stretch' =
                  Stretch_set_children(stretch, entity_to_stretch[entity],
                                       [i \in DOMAIN children |->
                                           entity_to_stretch[children[i]]])
            /\ FlexReturned("update_children", entity, "ok")
       ELSE /\ FlexReturned("update_children", entity, "panic")
            /\ UNCHANGED stretch
    /\ UNCHANGED <<entity_to_stretch, stretch_to_entity, window_nodes>>

\* the Style update_window gives the window's node
WindowStyle(window) ==
    [DefaultStyle EXCEPT !.width = {window.width}, !.height = {window.height}]

\* FlexSurface::update_window
update_window(window) ==
    /\ IF window.id \notin DOMAIN window_nodes
       THEN /\ window_nodes' =
                  HashMap_insert(window_nodes, window.id, Stretch_new_node_id(stretch))
            /\ stretch' =
                  Stretch_set_style(Stretch_new_node(stretch, DefaultStyle, <<>>),
                                    Stretch_new_node_id(stretch), WindowStyle(window))
       ELSE /\ stretch' =
                  Stretch_set_style(stretch, window_nodes[window.id], WindowStyle(window))
            /\ UNCHANGED window_nodes
    /\ UNCHANGED <<entity_to_stretch, stretch_to_entity>>
    /\ FlexReturned("update_window", 0, "ok")

\* FlexSurface::set_window_children: panics when the window or a child has
\* no node
set_window_children(window_id, children) ==
    /\ IF /\ window_id \in DOMAIN window_nodes
          /\ Range(children) \subseteq DOMAIN entity_to_stretch
       THEN /\ stretch' =
                  Stretch_set_children(stretch, window_nodes[window_id],
                                       [i \in DOMAIN children |->
                                           entity_to_stretch[children[i]]])
            /\ FlexReturned("set_window_children", 0, "ok")
       ELSE /\ FlexReturned("set_window_children", 0, "panic")
            /\ UNCHANGED stretch
    /\ UNCHANGED <<entity_to_stretch, stretch_to_entity, window_nodes>>

NextFlex ==
    \/ \E e \in FlexEntities, s \in StyleInputs : upsert_node(e, s)
    \/ \E e \in FlexEntities, ch \in ChildrenInputs : update_children(e, ch)
    \/ \E w \in WindowInputs : update_window(w)
    \/ \E w \in WindowInputs, ch \in ChildrenInputs : set_window_children(w.id, ch)

FlexSpec == Init /\ [][NextFlex]_vars

(***************************************************************************)
(* C20.  entity_to_stretch and stretch_to_entity are inverse maps, a       *)
(* bijection between the entities upserted and their solver nodes.  The    *)
(* first upsert_node of an entity creates exactly one node and records it  *)
(* in both maps; a later upsert_node of the entity sets that node's style  *)
(* and creates no node and changes neither map.                            *)
(***************************************************************************)
C20_InverseMaps ==
    /\ DOMAIN stretch_to_entity = {entity_to_stretch[e] : e \in DOMAIN entity_to_stretch}
    /\ DOMAIN entity_to_stretch = {stretch_to_entity[n] : n \in DOMAIN stretch_to_entity}
    /\ \A e \in DOMAIN entity_to_stretch : stretch_to_entity[entity_to_stretch[e]] = e
    /\ \A n \in DOMAIN stretch_to_entity : entity_to_stretch[stretch_to_entity[n]] = n
    /\ DOMAIN stretch_to_entity \subseteq DOMAIN stretch
    /\ \A w \in DOMAIN window_nodes : window_nodes[w] \notin DOMAIN stretch_to_entity

\* the first upsert_node of the entity e
C20_FirstUpsert(e) ==
    /\ Cardinality(DOMAIN stretch') = Cardinality(DOMAIN stretch) + 1
    /\ DOMAIN stretch \subseteq DOMAIN stretch'
    /\ \A m \in DOMAIN stretch : stretch'[m] = stretch[m]
    /\ \E n \in (DOMAIN stretch') \ (DOMAIN stretch) :
          /\ entity_to_stretch' = (e :> n) @@ entity_to_stretch
          /\ stretch_to_entity' = (n :> e) @@ stretch_to_entity
          /\ stretch'[n].children = <<>>

\* a later upsert_node of the entity e
C20_LaterUpsert(e) ==
    /\ entity_to_stretch' = entity_to_stretch
    /\ stretch_to_entity' = stretch_to_entity
    /\ DOMAIN stretch' = DOMAIN stretch
    /\ \A m \in DOMAIN stretch :
          /\ m # entity_to_stretch[e] => stretch'[m] = stretch[m]
          /\ stretch'[m].children = stretch[m].children

C20_Step ==
    /\ lastFlexCall'.op = "upsert_node" =>
          /\ lastFlexCall'.outcome = "ok"
          /\ window_nodes' = window_nodes
          /\ IF lastFlexCall'.entity \in DOMAIN entity_to_stretch
             THEN C20_LaterUpsert(lastFlexCall'.entity)
             ELSE C20_FirstUpsert(lastFlexCall'.entity)
    /\ lastFlexCall'.op # "upsert_node" =>
          /\ entity_to_stretch' = entity_to_stretch
          /\ stretch_to_entity' = stretch_to_entity

\* C20: the two maps are inverse to each other after every call
C20_MapsAreInverse ==
    /\ []C20_InverseMaps
    /\ [][C20_Step]_vars

\* every entity has its node, the window has its own, and the last call
\* was an upsert_node of an entity whose node already had children: the node
\* got the new style and kept its children
C20_Witness ==
    /\ lastFlexCall = [op |-> "upsert_node", entity |-> 1, outcome |-> "ok"]
    /\ DOMAIN entity_to_stretch = FlexEntities
    /\ DOMAIN window_nodes # {}
    /\ stretch[entity_to_stretch[1]].children # <<>>
    /\ stretch[entity_to_stretch[1]].style.flex_direction = "Column"
    /\ Cardinality(DOMAIN stretch) = MaxFlexEntities + 1

====
